---- MODULE Spec2Model ----
(***************************************************************************)
(* A model of pdf-to-img-bot (src/bot.py): the page renderer               *)
(* render_pages_to_files, the archive packer pack_into_zips and the job    *)
(* handler handle_pdf with its progress reporter run_with_progress.        *)
(*                                                                         *)
(* Three specifications:                                                   *)
(*   SpecPack    pack_into_zips alone, on every file list within the bounds*)
(*   SpecRender  render_pages_to_files alone, on one long document         *)
(*   Spec      one handle_pdf job: render worker thread, reporter loop,    *)
(*             packing, delivery                                           *)
(***************************************************************************)
EXTENDS Integers, Sequences, FiniteSets, TLC

\* ------------------------------------------------------------------ bounds

\* SpecPack: the longest file list, the largest file size, the largest max_size.
MaxFiles == 4
MaxFileSize == 4
MaxBound == 3

\* Spec: the longest document, in pages.
MaxPages == 120

\* SpecRender: the pages of its one long document, and how many of its last
\* pages the worker is followed through.
BigPages == 10000
LastPages == 150

\* ------------------------------------------------------- program constants

None == "None"

\* OUTPUT_DPI = 500
OUTPUT_DPI == 500

\* MAX_ZIP_SIZE = 45 * 1024 * 1024
MAX_ZIP_SIZE == 45 * 1024 * 1024

\* PROGRESS_EVERY = 50
PROGRESS_EVERY == 50

\* The sizes in bytes a rendered page of a document of Spec may have: 0.5 MiB
\* (90 pages fill an archive exactly) and 30 MiB (no two pages share an archive).
DocPageSizes == {512 * 1024, 30 * 1024 * 1024}

\* handle_pdf: base_name = Path(pdf_name).stem + "_images"
base_name == "doc_images"

\* ------------------------------------------------------------------- state

VARIABLES
    \* pack_into_zips: its arguments and the files they name
    png_files,          \* the list of PNG paths handed to the packer
    st_size,            \* st_size[p]: what png_path.stat().st_size reports
    max_size,
    \* pack_into_zips: its locals
    zip_paths,
    current_zip_path,
    current_zip,        \* the open ZipFile (its path), None before the first
    current_size,
    idx,                \* position of the for loop in png_files
    ppc,                \* "start" | "loop" | "close" | "rename" | "returned" | "raised"
    pack_result,        \* the returned list
    zip_dir,            \* output_dir: archive path -> member list
    closed,             \* the archives whose ZipFile has been closed
    \* the incoming update
    update,             \* "no_document" | "not_pdf" | "pdf"
    total_pages,        \* len(pdf) of the document sent
    \* handle_pdf
    pc,                 \* "idle" | "acquiring" | "rendering" | "except_render" |
                        \* "packing" | "except_pack" | "delivering" | "done" |
                        \* "error" | "ignored" | "crashed"
    temp_dir,           \* "none" | "allocated" | "released"
    texts,              \* the plain replies sent ("received", "please_send")
    failure_notices,    \* reply_text calls carrying a failure notice
    delivered,          \* the reply_document calls that went through, in order
    part_i,             \* i of the delivery loop
    escaped,            \* an exception left handle_pdf uncaught
    \* run_with_progress
    rpc,                \* "off" | "test" | "sleep" | "read_total" | "send" | "await"
    progress_state,     \* the cell progress_cb writes
    r_current,          \* the reporter's locals current and total
    r_total,
    last_sent,
    notifications,      \* the progress messages sent: <<current, total>>
    \* render_pages_to_files, on the worker thread
    wpc,                \* "off" | "open" | "loop" | "cb_total" | "returned" | "raised"
    page_number,
    w_png_files,        \* the worker's png_files, each path by its page number
    image_path,         \* the file name of the page saved last
    cb_calls            \* the progress_callback calls made: <<page_number, total_pages>>

packVars == <<png_files, st_size, max_size, zip_paths, current_zip_path,
              current_zip, current_size, idx, ppc, pack_result, zip_dir, closed>>

jobVars == <<update, total_pages, pc, temp_dir, texts, failure_notices, delivered,
             part_i, escaped>>

reporterVars == <<rpc, progress_state, r_current, r_total, last_sent, notifications>>

workerVars == <<wpc, page_number, w_png_files, image_path, cb_calls>>

vars == <<packVars, jobVars, reporterVars, workerVars>>

\* ---------------------------------------------------------- pack_into_zips

\* part = len(zip_paths) + 1
NextPart_FromZero(paths) == Len(paths)

NextPart(paths) == Len(paths) + 1

\* output_dir / f"{base_name}_part{part}.zip"
PartPath(part) == base_name \o "_part" \o ToString(part) \o ".zip"

\* output_dir / f"{base_name}.zip"
FinalPath == base_name \o ".zip"

\* if current_size + file_size >= max_size and current_size > 0
NeedNewZip_AtLimit(size, file_size, bound) == size + file_size >= bound /\ size > 0

\* if current_size + file_size > max_size and current_size > 0
NeedNewZip(size, file_size, bound) == size + file_size > bound /\ size > 0

\* current_zip.write(png_path, arcname=png_path.name)
ZipWrite_Prepend(members, png_path) == <<png_path>> \o members

ZipWrite(members, png_path) == Append(members, png_path)

\* if len(zip_paths) == 1
IsSinglePart_Never(paths) == FALSE

IsSinglePart(paths) == Len(paths) = 1

\* The archive directory with archive `path` created empty (mode="w" truncates).
Created(dir, path) == (path :> <<>>) @@ [p \in DOMAIN dir \ {path} |-> dir[p]]

\* single_path.rename(final_path)
Renamed(dir, from, to) ==
    (to :> dir[from]) @@ [p \in DOMAIN dir \ {from, to} |-> dir[p]]

\* pack_into_zips runs on its own thread and touches nothing of the job.
PackFrame == UNCHANGED <<jobVars, reporterVars, workerVars>>

\* Entering pack_into_zips: the locals as lines 67-70 set them.
PackEntry ==
    /\ zip_paths = <<>>
    /\ current_zip_path = None
    /\ current_zip = None
    /\ current_size = 0
    /\ idx = 1
    /\ ppc = "start"
    /\ pack_result = <<>>
    /\ zip_dir = <<>>
    /\ closed = {}

\* Line 84: the first start_new_zip().
PackStart ==
    /\ ppc = "start"
    /\ LET path == PartPath(NextPart(zip_paths))
       IN  /\ current_zip_path' = path
           /\ current_zip' = path
           /\ zip_dir' = Created(zip_dir, path)
           /\ zip_paths' = Append(zip_paths, path)
    /\ current_size' = 0
    /\ ppc' = "loop"
    /\ UNCHANGED <<png_files, st_size, max_size, idx, pack_result, closed>>
    /\ PackFrame

\* Lines 86-95: one iteration of the for loop, start_new_zip() included.
PackFile ==
    /\ ppc = "loop"
    /\ idx <= Len(png_files)
    /\ LET png_path == png_files[idx]
           file_size == st_size[png_path]
           fresh == NeedNewZip(current_size, file_size, max_size)
           path == IF fresh THEN PartPath(NextPart(zip_paths)) ELSE current_zip_path
           dir == IF fresh THEN Created(zip_dir, path) ELSE zip_dir
       IN  /\ current_zip_path' = path
           /\ current_zip' = path
           /\ closed' = IF fresh THEN closed \cup {current_zip} ELSE closed
           /\ zip_paths' = IF fresh THEN Append(zip_paths, path) ELSE zip_paths
           /\ zip_dir' = [dir EXCEPT ![path] = ZipWrite(@, png_path)]
           /\ current_size' = (IF fresh THEN 0 ELSE current_size) + file_size
    /\ idx' = idx + 1
    /\ UNCHANGED <<png_files, st_size, max_size, ppc, pack_result>>
    /\ PackFrame

\* The for loop is exhausted.
PackLoopEnd ==
    /\ ppc = "loop"
    /\ idx > Len(png_files)
    /\ ppc' = "close"
    /\ UNCHANGED <<png_files, st_size, max_size, zip_paths, current_zip_path,
                   current_zip, current_size, idx, pack_result, zip_dir, closed>>
    /\ PackFrame

\* Lines 97-98: close the last archive.
PackClose ==
    /\ ppc = "close"
    /\ closed' = IF current_zip # None THEN closed \cup {current_zip} ELSE closed
    /\ ppc' = "rename"
    /\ UNCHANGED <<png_files, st_size, max_size, zip_paths, current_zip_path,
                   current_zip, current_size, idx, pack_result, zip_dir>>
    /\ PackFrame

\* Lines 100-107: a single part loses its _part1 suffix; return zip_paths.
PackReturn ==
    /\ ppc = "rename"
    /\ IF IsSinglePart(zip_paths)
       THEN /\ zip_dir' = Renamed(zip_dir, zip_paths[1], FinalPath)
            /\ zip_paths' = <<FinalPath>>
       ELSE UNCHANGED <<zip_dir, zip_paths>>
    /\ pack_result' = zip_paths'
    /\ ppc' = "returned"
    /\ UNCHANGED <<png_files, st_size, max_size, current_zip_path, current_zip,
                   current_size, idx, closed>>
    /\ PackFrame

\* Any filesystem call of the packer (ZipFile(), stat, write, close, rename)
\* may raise OSError, which leaves pack_into_zips.
PackRaise ==
    /\ ppc \in {"start", "loop", "close", "rename"}
    /\ ppc' = "raised"
    /\ UNCHANGED <<png_files, st_size, max_size, zip_paths, current_zip_path,
                   current_zip, current_size, idx, pack_result, zip_dir, closed>>
    /\ PackFrame

Pack ==
    \/ PackStart
    \/ PackFile
    \/ PackLoopEnd
    \/ PackClose
    \/ PackReturn
    \/ PackRaise

\* ------------------------------------------------- render_pages_to_files

\* if progress_callback and (page_number % PROGRESS_EVERY == 0
\*                           or page_number == total_pages)
ShouldCallback_NoFinal(page, total) == page % PROGRESS_EVERY = 0

ShouldCallback(page, total) == page % PROGRESS_EVERY = 0 \/ page = total

RECURSIVE Digits(_)
\* The decimal digits of n >= 0, as character codes ("0" is 48).
Digits(n) ==
    IF n < 10 THEN <<48 + n>> ELSE Append(Digits(n \div 10), 48 + (n % 10))

\* The format spec 04d: zeros on the left up to a width of 4, never a cut.
ZeroPad4(digits) ==
    [i \in 1..(4 - Len(digits)) |-> 48] \o digits

\* f"page_{page_number:04d}.png", as character codes
PageName(page) ==
    <<112, 97, 103, 101, 95>> \o ZeroPad4(Digits(page)) \o <<46, 112, 110, 103>>

\* if not png_files: raise ValueError("The PDF file has no pages")
NoPages_Unchecked(files) == FALSE

NoPages(files) == files = <<>>

\* The worker thread before asyncio.to_thread starts it.
WorkerOff ==
    /\ wpc = "off"
    /\ page_number = 0
    /\ w_png_files = <<>>
    /\ image_path = None
    /\ cb_calls = <<>>

\* The worker writes its own locals and the progress cell, nothing else.
WorkerFrame ==
    UNCHANGED <<packVars, jobVars, rpc, r_current, r_total, last_sent, notifications>>

\* Lines 40-41: fitz.open(pdf_path), total_pages = len(pdf).
RenderOpen ==
    /\ wpc = "open"
    /\ wpc' = "loop"
    /\ UNCHANGED <<page_number, w_png_files, image_path, cb_calls, progress_state>>
    /\ WorkerFrame

\* Lines 42-52: one page: save it, append its path and, on a page the callback
\* is due, call progress_cb, whose first statement writes "current".
RenderPage ==
    /\ wpc = "loop"
    /\ page_number < total_pages
    /\ temp_dir # "released"  \* in a removed directory save raises: RenderRaise
    /\ page_number' = page_number + 1
    /\ image_path' = PageName(page_number')
    /\ w_png_files' = Append(w_png_files, page_number')
    /\ IF ShouldCallback(page_number', total_pages)
       THEN /\ cb_calls' = Append(cb_calls, <<page_number', total_pages>>)
            /\ progress_state' = [progress_state EXCEPT !.current = page_number']
            /\ wpc' = "cb_total"
       ELSE UNCHANGED <<cb_calls, progress_state, wpc>>
    /\ WorkerFrame

\* Line 162: progress_cb's second statement writes "total".
RenderCallbackTotal ==
    /\ wpc = "cb_total"
    /\ progress_state' =
           [progress_state EXCEPT !.total = cb_calls[Len(cb_calls)][2]]
    /\ wpc' = "loop"
    /\ UNCHANGED <<page_number, w_png_files, image_path, cb_calls>>
    /\ WorkerFrame

\* Lines 54-57: after the last page: no file is a ValueError, else return.
RenderFinish ==
    /\ wpc = "loop"
    /\ page_number = total_pages
    /\ wpc' = IF NoPages(w_png_files) THEN "raised" ELSE "returned"
    /\ UNCHANGED <<page_number, w_png_files, image_path, cb_calls, progress_state>>
    /\ WorkerFrame

\* fitz.open, get_pixmap or save raises (a corrupt document, a full disk).
RenderRaise ==
    /\ \/ wpc = "open"
       \/ wpc = "loop" /\ page_number < total_pages
    /\ wpc' = "raised"
    /\ UNCHANGED <<page_number, w_png_files, image_path, cb_calls, progress_state>>
    /\ WorkerFrame

\* The worker thread: it runs whatever the handler does meanwhile.
Worker ==
    \/ RenderOpen
    \/ RenderPage
    \/ RenderCallbackTotal
    \/ RenderFinish
    \/ RenderRaise

\* conversion_task.done()
ConversionDone_OnLastCallback ==
    wpc \in {"returned", "raised"} \/ (wpc = "cb_total" /\ page_number = total_pages)

ConversionDone == wpc \in {"returned", "raised"}

\* The thread of asyncio.to_thread is inside render_pages_to_files. Nothing
\* stops it when the handler leaves: a thread cannot be cancelled.
WorkerRunning == wpc \in {"open", "loop", "cb_total"}

\* ------------------------------------------------------ run_with_progress

\* if total > 0 and current > last_sent and current < total:
\*     if current - last_sent >= PROGRESS_EVERY or current == total:
ShouldNotify_FromZero(current, total, last) ==
    /\ total > 0 /\ current > 0 /\ current < total
    /\ (current >= PROGRESS_EVERY \/ current = total)

ShouldNotify_NoUpper(current, total, last) ==
    /\ total > 0 /\ current > last
    /\ (current - last >= PROGRESS_EVERY \/ current = total)

ShouldNotify(current, total, last) ==
    /\ total > 0 /\ current > last /\ current < total
    /\ (current - last >= PROGRESS_EVERY \/ current = total)

\* The reporter before run_with_progress is called.
ReporterOff ==
    /\ rpc = "off"
    /\ progress_state = [current |-> 0, total |-> 0]
    /\ r_current = 0
    /\ r_total = 0
    /\ last_sent = 0
    /\ notifications = <<>>

\* The reporter loop writes only its own locals and the messages it sends.
ReporterFrame == UNCHANGED <<packVars, jobVars, workerVars>>

\* Line 171: while not conversion_task.done().
ReporterTest ==
    /\ pc = "rendering"
    /\ rpc = "test"
    /\ rpc' = IF ConversionDone THEN "await" ELSE "sleep"
    /\ UNCHANGED <<progress_state, r_current, r_total, last_sent, notifications>>
    /\ ReporterFrame

\* Lines 172-173: the sleep is over; current = progress_state["current"].
ReporterReadCurrent ==
    /\ pc = "rendering"
    /\ rpc = "sleep"
    /\ r_current' = progress_state.current
    /\ rpc' = "read_total"
    /\ UNCHANGED <<progress_state, r_total, last_sent, notifications>>
    /\ ReporterFrame

\* Lines 174-176: total = progress_state["total"], and the two tests.
ReporterReadTotal ==
    /\ pc = "rendering"
    /\ rpc = "read_total"
    /\ r_total' = progress_state.total
    /\ rpc' = IF ShouldNotify(r_current, r_total', last_sent) THEN "send" ELSE "test"
    /\ UNCHANGED <<progress_state, r_current, last_sent, notifications>>
    /\ ReporterFrame

\* Lines 178-181: the progress message went out; last_sent = current.
ReporterSend ==
    /\ pc = "rendering"
    /\ rpc = "send"
    /\ notifications' = Append(notifications, <<r_current, r_total>>)
    /\ last_sent' = r_current
    /\ rpc' = "test"
    /\ UNCHANGED <<progress_state, r_current, r_total>>
    /\ ReporterFrame

Reporter ==
    \/ ReporterTest
    \/ ReporterReadCurrent
    \/ ReporterReadTotal
    \/ ReporterSend

\* ---------------------------------------------------------------- handle_pdf

\* caption of the i-th of total_parts archives
Caption_ZeroBased(i, total_parts, page_count) ==
    IF total_parts = 1
    THEN "Done. Converted " \o ToString(page_count) \o " page(s) to PNG ("
         \o ToString(OUTPUT_DPI) \o " DPI) and packed them into this ZIP."
    ELSE "Part " \o ToString(i - 1) \o " of " \o ToString(total_parts)
         \o ". Total: " \o ToString(page_count) \o " page(s) at "
         \o ToString(OUTPUT_DPI) \o " DPI."

Caption(i, total_parts, page_count) ==
    IF total_parts = 1
    THEN "Done. Converted " \o ToString(page_count) \o " page(s) to PNG ("
         \o ToString(OUTPUT_DPI) \o " DPI) and packed them into this ZIP."
    ELSE "Part " \o ToString(i) \o " of " \o ToString(total_parts) \o ". Total: "
         \o ToString(page_count) \o " page(s) at " \o ToString(OUTPUT_DPI) \o " DPI."

\* The handler before the update arrives.
JobIdle ==
    /\ pc = "idle"
    /\ temp_dir = "none"
    /\ texts = <<>>
    /\ failure_notices = 0
    /\ delivered = <<>>
    /\ part_i = 0
    /\ escaped = FALSE
    /\ ReporterOff
    /\ WorkerOff

\* The packer before handle_pdf calls it.
PackNotCalled ==
    /\ png_files = <<>>
    /\ st_size = <<>>
    /\ max_size = MAX_ZIP_SIZE
    /\ zip_paths = <<>>
    /\ current_zip_path = None
    /\ current_zip = None
    /\ current_size = 0
    /\ idx = 1
    /\ ppc = "not_called"
    /\ pack_result = <<>>
    /\ zip_dir = <<>>
    /\ closed = {}

\* Lines 119-120: an update without a document is dropped.
HandleNoDocument ==
    /\ pc = "idle"
    /\ update = "no_document"
    /\ pc' = "ignored"
    /\ UNCHANGED <<update, total_pages, temp_dir, texts, failure_notices, delivered,
                   part_i, escaped>>
    /\ UNCHANGED <<packVars, reporterVars, workerVars>>

\* Lines 123-128: a document that is no PDF is answered and dropped.
HandleNotPdf ==
    /\ pc = "idle"
    /\ update = "not_pdf"
    /\ texts' = Append(texts, "please_send")
    /\ pc' = "ignored"
    /\ UNCHANGED <<update, total_pages, temp_dir, failure_notices, delivered,
                   part_i, escaped>>
    /\ UNCHANGED <<packVars, reporterVars, workerVars>>

\* Lines 134-142: "PDF received" is sent and the temporary directory made.
HandleReceive ==
    /\ pc = "idle"
    /\ update = "pdf"
    /\ \/ /\ texts' = Append(texts, "received")
          /\ temp_dir' = "allocated"
          /\ pc' = "acquiring"
          /\ UNCHANGED escaped
       \/ \* reply_text raises
          /\ pc' = "crashed"
          /\ escaped' = TRUE
          /\ UNCHANGED <<texts, temp_dir>>
    /\ UNCHANGED <<update, total_pages, failure_notices, delivered, part_i>>
    /\ UNCHANGED <<packVars, reporterVars, workerVars>>

\* Lines 144-172: the download; then run_with_progress schedules the worker
\* and, the task not being done yet, enters its loop and sleeps.
HandleDownload ==
    /\ pc = "acquiring"
    /\ \/ /\ pc' = "rendering"
          /\ rpc' = "sleep"
          /\ wpc' = "open"
          /\ UNCHANGED <<temp_dir, escaped>>
       \/ \* get_file or download_to_drive raises: the with block is left
          /\ pc' = "crashed"
          /\ escaped' = TRUE
          /\ temp_dir' = "released"
          /\ UNCHANGED <<rpc, wpc>>
    /\ UNCHANGED <<update, total_pages, texts, failure_notices, delivered, part_i>>
    /\ UNCHANGED <<progress_state, r_current, r_total, last_sent, notifications>>
    /\ UNCHANGED <<page_number, w_png_files, image_path, cb_calls>>
    /\ UNCHANGED packVars

\* Lines 178-180 raising: reply_text fails inside the reporter loop and the
\* exception leaves run_with_progress for the except clause of line 186.
ReporterSendRaises ==
    /\ pc = "rendering"
    /\ rpc = "send"
    /\ rpc' = "off"
    /\ pc' = "except_render"
    /\ UNCHANGED <<update, total_pages, temp_dir, texts, failure_notices, delivered,
                   part_i, escaped>>
    /\ UNCHANGED <<progress_state, r_current, r_total, last_sent, notifications>>
    /\ UNCHANGED <<packVars, workerVars>>

\* Lines 183-198: return await conversion_task. The worker's exception goes to
\* the except clause; its list becomes png_files and the packer is called.
HandleRenderResult ==
    /\ pc = "rendering"
    /\ rpc = "await"
    /\ rpc' = "off"
    /\ IF wpc = "raised"
       THEN /\ pc' = "except_render"
            /\ UNCHANGED packVars
       ELSE /\ pc' = "packing"
            /\ png_files' = w_png_files
            /\ \E bytes \in DocPageSizes :
                   st_size' = [p \in 1..Len(w_png_files) |-> bytes]
            /\ max_size' = MAX_ZIP_SIZE
            /\ zip_paths' = <<>>
            /\ current_zip_path' = None
            /\ current_zip' = None
            /\ current_size' = 0
            /\ idx' = 1
            /\ ppc' = "start"
            /\ pack_result' = <<>>
            /\ zip_dir' = <<>>
            /\ closed' = {}
    /\ UNCHANGED <<update, total_pages, temp_dir, texts, failure_notices, delivered,
                   part_i, escaped>>
    /\ UNCHANGED <<progress_state, r_current, r_total, last_sent, notifications>>
    /\ UNCHANGED workerVars

\* return (lines 191 and 204): where the handler is after a failure notice.
AfterFailure_FallThrough(phase) ==
    IF phase = "except_render" THEN "packing" ELSE "delivering"

AfterFailure(phase) == "error"

\* Lines 186-191 and 199-204: the except clause: log, send the failure
\* notice, return, which leaves the with block of line 136 and removes the
\* temporary directory. A worker still running (the reporter's reply_text
\* raised) races with the removal: a page file saved while the tree is being
\* removed makes rmdir fail, cleanup raises OSError and the directory stays.
HandleExcept ==
    /\ pc \in {"except_render", "except_pack"}
    /\ failure_notices' = failure_notices + 1
    /\ pc' = AfterFailure(pc)
    /\ \/ /\ temp_dir' = "released"
          /\ escaped' \in BOOLEAN  \* TRUE: the notice's reply_text raised
       \/ /\ WorkerRunning
          /\ temp_dir' = "allocated"
          /\ escaped' = TRUE
    /\ UNCHANGED <<update, total_pages, texts, delivered, part_i>>
    /\ UNCHANGED <<packVars, reporterVars, workerVars>>

\* Lines 195-206: await asyncio.to_thread(pack_into_zips, ...) is over.
HandlePackResult ==
    /\ pc = "packing"
    /\ \/ /\ ppc = "returned"
          /\ pc' = "delivering"
          /\ part_i' = 1
       \/ /\ ppc = "raised"
          /\ pc' = "except_pack"
          /\ UNCHANGED part_i
    /\ UNCHANGED <<update, total_pages, temp_dir, texts, failure_notices, delivered,
                   escaped>>
    /\ UNCHANGED <<packVars, reporterVars, workerVars>>

\* Lines 208-225: one round of the delivery loop.
HandleDeliver ==
    /\ pc = "delivering"
    /\ part_i <= Len(pack_result)
    /\ \/ /\ delivered' = Append(delivered,
                 [filename |-> pack_result[part_i],
                  caption |-> Caption(part_i, Len(pack_result), Len(png_files))])
          /\ part_i' = part_i + 1
          /\ UNCHANGED <<pc, temp_dir, escaped>>
       \/ \* zip_path.open or reply_document raises: nothing catches it
          /\ pc' = "crashed"
          /\ escaped' = TRUE
          /\ temp_dir' = "released"
          /\ UNCHANGED <<delivered, part_i>>
    /\ UNCHANGED <<update, total_pages, texts, failure_notices>>
    /\ UNCHANGED <<packVars, reporterVars, workerVars>>

\* The delivery loop is exhausted: handle_pdf returns.
HandleDone ==
    /\ pc = "delivering"
    /\ part_i > Len(pack_result)
    /\ pc' = "done"
    /\ temp_dir' = "released"
    /\ UNCHANGED <<update, total_pages, texts, failure_notices, delivered, part_i,
                   escaped>>
    /\ UNCHANGED <<packVars, reporterVars, workerVars>>

Handler ==
    \/ HandleNoDocument
    \/ HandleNotPdf
    \/ HandleReceive
    \/ HandleDownload
    \/ ReporterSendRaises
    \/ HandleRenderResult
    \/ HandleExcept
    \/ HandlePackResult
    \/ HandleDeliver
    \/ HandleDone

\* ------------------------------------------------------------------- Spec

\* One update: any kind, and for a PDF any page count up to MaxPages.
Init ==
    /\ update \in {"no_document", "not_pdf", "pdf"}
    /\ total_pages \in 0..MaxPages
    /\ update # "pdf" => total_pages = 0
    /\ JobIdle
    /\ PackNotCalled

Next == Handler \/ Reporter \/ Worker \/ Pack

Spec == Init /\ [][Next]_vars

\* ------------------------------------------------------------ SpecRender

\* The callback calls made once `done` pages of a `total`-page document are
\* rendered: the multiples of PROGRESS_EVERY, then the last page.
CallsAfter(done, total) ==
    [j \in 1..(done \div PROGRESS_EVERY) |-> <<j * PROGRESS_EVERY, total>>]
    \o (IF done = total /\ total % PROGRESS_EVERY # 0
        THEN << <<total, total>> >> ELSE <<>>)

\* The worker at the top of its loop with `done` pages rendered.
RenderedSoFar(done) ==
    /\ page_number = done
    /\ w_png_files = [i \in 1..done |-> i]
    /\ image_path = IF done = 0 THEN None ELSE PageName(done)
    /\ cb_calls = CallsAfter(done, total_pages)
    /\ progress_state =
           IF cb_calls = <<>> THEN [current |-> 0, total |-> 0]
           ELSE [current |-> cb_calls[Len(cb_calls)][1], total |-> total_pages]

\* render_pages_to_files called with a progress callback and no job around
\* it, on one document of BigPages pages: entered, or at the top of its loop
\* with at most LastPages pages left.
InitRender ==
    /\ update = "pdf"
    /\ total_pages = BigPages
    /\ pc = "idle"
    /\ temp_dir = "none"
    /\ texts = <<>>
    /\ failure_notices = 0
    /\ delivered = <<>>
    /\ part_i = 0
    /\ escaped = FALSE
    /\ rpc = "off"
    /\ r_current = 0
    /\ r_total = 0
    /\ last_sent = 0
    /\ notifications = <<>>
    /\ \/ wpc = "open" /\ RenderedSoFar(0)
       \/ wpc = "loop" /\ \E done \in (BigPages - LastPages)..BigPages :
                               RenderedSoFar(done)
    /\ PackNotCalled

NextRender == Worker

SpecRender == InitRender /\ [][NextRender]_vars

\* ------------------------------------------------------------- SpecPack

\* Every list of at most MaxFiles files with sizes in 0..MaxFileSize, every
\* bound in 1..MaxBound.
InitPack ==
    /\ \/ /\ \E n \in 0..MaxFiles :
                /\ png_files = [i \in 1..n |-> i]
                /\ st_size \in [1..n -> 0..MaxFileSize]
          /\ max_size \in 1..MaxBound
       \/ /\ png_files = [i \in 1..MaxPages |-> i]
          /\ \E bytes \in DocPageSizes :
                st_size = [i \in 1..MaxPages |-> bytes]
          /\ max_size = MAX_ZIP_SIZE
    /\ PackEntry
    /\ update = "no_document"
    /\ total_pages = 0
    /\ JobIdle

NextPack == Pack

SpecPack == InitPack /\ [][NextPack]_vars

\* ------------------------------------------- claims about pack_into_zips

RECURSIVE SumSizes(_)
\* The cumulative st_size of a member list.
SumSizes(members) ==
    IF members = <<>> THEN 0
    ELSE st_size[Head(members)] + SumSizes(Tail(members))

RECURSIVE Concat(_, _)
\* The member lists of the archives `paths`, one after the other.
Concat(dir, paths) ==
    IF paths = <<>> THEN <<>>
    ELSE dir[Head(paths)] \o Concat(dir, Tail(paths))

\* C1 (as claimed): for a non-empty file list, every part the packer returns
\* has a cumulative member size <= max_size, unless it holds exactly one
\* member whose own size exceeds max_size.
Claim_C1_PartSizeBound ==
    (ppc = "returned" /\ png_files # <<>>) =>
        \A k \in 1..Len(pack_result) :
            LET members == zip_dir[pack_result[k]]
            IN  \/ SumSizes(members) <= max_size
                \/ Len(members) = 1 /\ st_size[members[1]] > max_size

\* C2: the parts cover the input exactly once and in order: the member lists
\* of the parts, concatenated in part order, are the input list; while the
\* loop runs they are the files consumed so far.
Thm_C2_PartsCoverInput ==
    /\ ppc \in {"loop", "close", "rename"} =>
           Concat(zip_dir, zip_paths) = SubSeq(png_files, 1, idx - 1)
    /\ ppc = "returned" =>
           /\ Concat(zip_dir, pack_result) = png_files
           /\ DOMAIN zip_dir = {pack_result[k] : k \in 1..Len(pack_result)}

\* C2's case: a packing that split three or more files over several parts.
Wit_C2_MultiPartCover ==
    /\ ppc = "returned"
    /\ Len(pack_result) >= 2
    /\ Len(png_files) >= 3
    /\ \E k \in 1..Len(pack_result) : Len(zip_dir[pack_result[k]]) >= 2

\* C3 (as claimed): on an empty file list the packer ends in an error, with
\* no archive list returned and no archive left.
Claim_C3_EmptyInputFails ==
    (png_files = <<>> /\ ppc \in {"returned", "raised"}) =>
        /\ ppc = "raised"
        /\ pack_result = <<>>

\* C3 (amended): on an empty file list a packer that returns has produced
\* exactly one archive, the canonical {base}.zip, with no members.
Thm_C3_EmptyInputOneEmptyArchive ==
    (png_files = <<>> /\ ppc = "returned") =>
        /\ pack_result = <<FinalPath>>
        /\ DOMAIN zip_dir = {FinalPath}
        /\ zip_dir[FinalPath] = <<>>

\* C3's case: the packer has returned from an empty file list.
Wit_C3_EmptyInputReturned ==
    /\ png_files = <<>>
    /\ ppc = "returned"
    /\ pack_result # <<>>

\* C9 (as claimed): every file larger than max_size is the only member of
\* its part, whatever precedes or follows it.
Claim_C9_OversizeIsSingleton ==
    ppc = "returned" =>
        \A k \in 1..Len(pack_result) :
            LET members == zip_dir[pack_result[k]]
            IN  (\E i \in 1..Len(members) : st_size[members[i]] > max_size)
                    => Len(members) = 1

\* C10: the packer returns n >= 1 paths; one part is {base}.zip and no
\* {base}_part1.zip remains; several parts are {base}_part{k}.zip, k = 1..n,
\* and no {base}.zip exists.
Thm_C10_PartNaming ==
    ppc = "returned" =>
        LET n == Len(pack_result)
        IN  /\ n >= 1
            /\ n = 1 => /\ pack_result = <<FinalPath>>
                        /\ PartPath(1) \notin DOMAIN zip_dir
                        /\ FinalPath \in DOMAIN zip_dir
            /\ n > 1 => /\ \A k \in 1..n : /\ pack_result[k] = PartPath(k)
                                           /\ PartPath(k) \in DOMAIN zip_dir
                        /\ FinalPath \notin DOMAIN zip_dir

\* C10's case: a packing that returned three parts.
Wit_C10_ThreeParts ==
    /\ ppc = "returned"
    /\ Len(pack_result) = 3

\* ---------------------------------------------- claims about handle_pdf

\* The job has failed: in an except clause, after one, or left by an exception.
JobFailed == pc \in {"except_render", "except_pack", "error", "crashed"}

\* C4: a rendering or packing failure ends the job in Error: no archive was
\* or will be delivered, exactly one failure notice is sent, the packer is
\* never entered after a rendering failure, and the handler does nothing more.
Thm_C4_FailureEndsInError ==
    /\ pc \in {"except_render", "except_pack"} =>
           /\ delivered = <<>>
           /\ failure_notices = 0
    /\ pc = "except_render" => ppc = "not_called"
    /\ pc = "except_pack" => ppc = "raised"
    /\ pc = "error" =>
           /\ delivered = <<>>
           /\ part_i = 0
           /\ failure_notices = 1
           /\ ppc \in {"not_called", "raised"}
           /\ ~ ENABLED (Handler \/ Reporter \/ Pack)
    /\ failure_notices > 0 => pc = "error"

\* C4's case: packing failed with archives already written, and the job is
\* in Error.
Wit_C4_PackFailureError ==
    /\ pc = "error"
    /\ ppc = "raised"
    /\ Len(zip_paths) >= 2
    /\ failure_notices = 1

\* C5 (as claimed, its first half): a job that has failed, at any point, has
\* handed no archive to the delivery collaborator.
Claim_C5_NoPartialDelivery ==
    JobFailed => delivered = <<>>

\* C6 (as claimed): once rendering has completed successfully, the last
\* progress notification sent reports pages_done = pages_total.
Claim_C6_FinalNotification ==
    pc \in {"packing", "delivering", "done"} =>
        /\ notifications # <<>>
        /\ notifications[Len(notifications)] = <<total_pages, total_pages>>

\* C7: every progress notification sent reports a pages_done that is at least
\* PROGRESS_EVERY beyond the pages_done of the notification before it (0 for
\* the first), or equal to the reported total.
Thm_C7_Throttling ==
    \A i \in 1..Len(notifications) :
        LET last_notified == IF i = 1 THEN 0 ELSE notifications[i - 1][1]
            pages_done == notifications[i][1]
            pages_total == notifications[i][2]
        IN  \/ pages_done - last_notified >= PROGRESS_EVERY
            \/ pages_done = pages_total

\* C7's case: two notifications of one job have been sent.
Wit_C7_TwoNotifications ==
    /\ Len(notifications) >= 2
    /\ notifications[2][1] > notifications[1][1]

\* The calls C8 expects after `done` pages of a `total`-page document.
CallbackDue(call) == call[1] % PROGRESS_EVERY = 0 \/ call[1] = call[2]

ExpectedCalls(done, total) ==
    SelectSeq([p \in 1..done |-> <<p, total>>], CallbackDue)

\* C8: the callback calls made so far are, in ascending page order and once
\* each, the pages p rendered so far with p mod PROGRESS_EVERY = 0 or
\* p = total_pages, each passed with total_pages; a 120-page document gives
\* the calls 50, 100, 120.
Thm_C8_CallbackPages ==
    /\ cb_calls = ExpectedCalls(page_number, total_pages)
    /\ (wpc = "returned" /\ total_pages = 120) =>
           cb_calls = << <<50, 120>>, <<100, 120>> , <<120, 120>> >>

\* C8's case: the worker has rendered a 120-page document to the end.
Wit_C8_Rendered120 ==
    /\ wpc = "returned"
    /\ total_pages = 120
    /\ Len(cb_calls) = 3

\* C11: for a zero-page document the worker raises, having written no page
\* file and made no callback call; the job then calls no packer, creates no
\* archive, delivers nothing, and once the failure is handled has sent
\* exactly one failure notice.
Thm_C11_EmptyDocument ==
    (update = "pdf" /\ total_pages = 0) =>
        /\ wpc \in {"off", "open", "loop", "raised"}
        /\ page_number = 0
        /\ w_png_files = <<>>
        /\ cb_calls = <<>>
        /\ notifications = <<>>
        /\ ppc = "not_called"
        /\ zip_dir = <<>>
        /\ delivered = <<>>
        /\ pc \notin {"packing", "except_pack", "delivering", "done"}
        /\ (pc = "rendering" /\ rpc = "await") => wpc = "raised"
        /\ pc = "error" => failure_notices = 1

\* C11's case: the empty document was opened, the worker raised after its
\* loop and the job has sent its failure notice.
Wit_C11_EmptyDocumentError ==
    /\ update = "pdf"
    /\ total_pages = 0
    /\ wpc = "raised"
    /\ pc = "error"
    /\ failure_notices = 1

\* The states InitRender starts from are those the worker passes through:
\* at the top of its loop it is as RenderedSoFar describes.
LoopTopIsRenderedSoFar ==
    wpc = "loop" => RenderedSoFar(page_number)

RECURSIVE LexLess(_, _)
\* a < b for two file names compared as strings, character by character.
LexLess(a, b) ==
    IF b = <<>> THEN FALSE
    ELSE IF a = <<>> THEN TRUE
    ELSE IF Head(a) # Head(b) THEN Head(a) < Head(b)
    ELSE LexLess(Tail(a), Tail(b))

\* C12 (as claimed): a returning worker has produced exactly the pages
\* 1..total_pages in ascending order, and each page's file name is greater,
\* compared as a string, than the name of the page before it.
Claim_C12_NamesSortInPageOrder ==
    /\ [](wpc = "returned" => w_png_files = [i \in 1..total_pages |-> i])
    /\ [][(page_number' = page_number + 1 /\ page_number >= 1)
              => LexLess(image_path, image_path')]_vars

\* C13: the archives delivered so far are the first parts of the packer's
\* list, each once and in part order; a finished job has delivered all n of
\* them; a single archive carries the "Done. Converted ..." caption, and the
\* i-th of n > 1 archives the caption "Part i of n. ...".
Thm_C13_DeliveryOrder ==
    LET n == Len(pack_result)
        pages == ToString(Len(png_files))
    IN  /\ Len(delivered) <= n
        /\ pc = "delivering" => Len(delivered) = part_i - 1
        /\ pc = "done" => (n >= 1 /\ Len(delivered) = n)
        /\ \A k \in 1..Len(delivered) :
               /\ delivered[k].filename = pack_result[k]
               /\ \A j \in 1..Len(delivered) :
                      j # k => delivered[j].filename # delivered[k].filename
               /\ n = 1 => delivered[k].caption =
                      "Done. Converted " \o pages
                      \o " page(s) to PNG (500 DPI) and packed them into this ZIP."
               /\ n > 1 => delivered[k].caption =
                      "Part " \o ToString(k) \o " of " \o ToString(n)
                      \o ". Total: " \o pages \o " page(s) at 500 DPI."

\* C13's case: a job is done that delivered three or more parts.
Wit_C13_ManyPartsDelivered ==
    /\ pc = "done"
    /\ Len(pack_result) >= 3
    /\ Len(delivered) = Len(pack_result)

\* The handler has finished, by a return or by an exception.
JobEnded == pc \in {"ignored", "done", "error", "crashed"}

\* C14 (as claimed): no job that has ended has its temporary working area
\* still allocated.
Claim_C14_TempDirReleased ==
    JobEnded => temp_dir # "allocated"

\* C17 (as claimed): the temporary working area is released only after the
\* render worker has stopped.
Claim_C17_ReleaseAfterWorkerStops ==
    temp_dir = "released" => ~ WorkerRunning

\* The phase of the spec's state machine the handler is in. The except
\* clauses belong to Error; Ignored (an update that is no PDF) and Crashed
\* (an exception nothing catches) lie outside that machine.
Phase(p) ==
    CASE p \in {"idle", "acquiring"} -> "Idle"
      [] p = "rendering" -> "Rendering"
      [] p = "packing" -> "Packing"
      [] p = "delivering" -> "Delivering"
      [] p = "done" -> "Done"
      [] p \in {"except_render", "except_pack", "error"} -> "Error"
      [] p = "ignored" -> "Ignored"
      [] p = "crashed" -> "Crashed"

PhaseOrder ==
    { <<"Idle", "Rendering">>, <<"Rendering", "Packing">>,
      <<"Packing", "Delivering">>, <<"Delivering", "Done">>,
      <<"Rendering", "Error">>, <<"Packing", "Error">>,
      <<"Idle", "Ignored">>, <<"Idle", "Crashed">>, <<"Delivering", "Crashed">> }

\* C15: the phases change only along Idle -> Rendering -> Packing ->
\* Delivering -> Done, with Error entered from Rendering or Packing only (and
\* the exits Ignored and Crashed); the packer is called only once the worker
\* has returned the complete page list, delivery starts only once the packer
\* has returned, and nothing leaves Done or Error.
Thm_C15_PhaseOrder ==
    /\ [](ppc # "not_called" =>
              /\ wpc = "returned"
              /\ png_files = [i \in 1..total_pages |-> i])
    /\ [](pc = "packing" => ppc # "not_called")
    /\ [](pc \in {"delivering", "done"} => ppc = "returned")
    /\ [][Phase(pc') # Phase(pc) => <<Phase(pc), Phase(pc')>> \in PhaseOrder]_vars
    /\ [][(pc \in {"done", "error"}) => (pc' = pc)]_vars

\* C15's case: a job with progress messages has gone through every phase.
Wit_C15_AllPhasesDone ==
    /\ pc = "done"
    /\ notifications # <<>>
    /\ delivered # <<>>

\* Consecutive parts are split maximally: the size of the earlier part plus
\* the size of the first member of the later one exceeds max_size.
SplitIsMaximal(dir, paths) ==
    \A k \in 1..(Len(paths) - 1) :
        /\ dir[paths[k + 1]] # <<>>
        /\ SumSizes(dir[paths[k]]) + st_size[dir[paths[k + 1]][1]] > max_size

\* C16: a part is closed only when the next file would not fit: for every two
\* consecutive parts, size(part k) + size(first member of part k+1) exceeds
\* max_size, while the loop runs and in the returned list; 120 files of
\* 0.5 MiB under the 45 MiB bound give exactly two parts, files 1-90 and
\* 91-120.
Thm_C16_FirstFitMaximal ==
    /\ ppc \in {"loop", "close", "rename"} => SplitIsMaximal(zip_dir, zip_paths)
    /\ ppc = "returned" =>
           /\ SplitIsMaximal(zip_dir, pack_result)
           /\ ( /\ Len(png_files) = 120
                /\ \A i \in 1..120 : st_size[i] = 512 * 1024
                /\ max_size = 45 * 1024 * 1024 ) =>
                  /\ Len(pack_result) = 2
                  /\ zip_dir[pack_result[1]] = [i \in 1..90 |-> i]
                  /\ zip_dir[pack_result[2]] = [i \in 1..30 |-> 90 + i]

\* C16's case: the 120 half-megabyte files have been packed into two parts.
Wit_C16_Example120 ==
    /\ ppc = "returned"
    /\ Len(png_files) = 120
    /\ \A i \in 1..120 : st_size[i] = 512 * 1024
    /\ Len(pack_result) = 2

\* C18: whatever the interleaving of the worker's two writes and the
\* reporter's two reads, every progress notification sent reports a pair
\* (current, total) with 0 < current < total, total the document's page
\* count and current a page the callback was called for, and the reported
\* current values strictly increase.
Thm_C18_NotificationPairs ==
    \A i \in 1..Len(notifications) :
        LET current == notifications[i][1]
            total == notifications[i][2]
        IN  /\ 0 < current /\ current < total
            /\ total = total_pages
            /\ \E j \in 1..Len(cb_calls) : cb_calls[j][1] = current
            /\ i > 1 => notifications[i - 1][1] < current

\* C18's case: after a notification was sent, the reporter has read a newer
\* current while the worker is between its write of current and of total.
Wit_C18_ReadBetweenWrites ==
    /\ notifications # <<>>
    /\ wpc = "cb_total"
    /\ rpc = "read_total"
    /\ r_current = progress_state.current
    /\ r_current > notifications[Len(notifications)][1]

\* C19 (as claimed, its outcome): a job whose conversion task was started and
\* whose handler has finished has finished in Done or in Error.
Claim_C19_EndsInDoneOrError ==
    (JobEnded /\ wpc # "off") => pc \in {"done", "error"}

====
